---- MODULE Spec2Model ----
(***************************************************************************)
(* Waitlist email service: the Express route handlers of src/server.js     *)
(* (and of its earlier revision, src/unnamed/part_000) running as          *)
(* concurrently scheduled request tasks over one Firestore collection      *)
(* ("waitlist") and one mail transport.                                    *)
(*                                                                         *)
(* Every `await` of a handler is a suspension point: the code between two  *)
(* awaits runs atomically (one JavaScript thread), the awaited store or    *)
(* mail call takes effect in a step of its own, and steps of different     *)
(* requests interleave freely.                                             *)
(***************************************************************************)
EXTENDS Integers, Sequences, FiniteSets, TLC

\* ------------------------------------------------------------------ bounds
\* Number of requests the service receives in one behaviour.
NumTasks == 2

Tasks == 1..NumTasks

\* ------------------------------------------------------------ request values
\* A JSON body value of the "email" property: a string (its characters), the
\* absent property (undefined) or a non-string value (a number).
Str(s) == [kind |-> "string", chars |-> s]
Undefined == [kind |-> "undefined", chars |-> <<>>]
NonString == [kind |-> "number", chars |-> <<>>]

PlainA == <<"a", "@", "b", ".", "c">>
PaddedA == <<" ", "a", "@", "b", ".", "c", " ">>
UpperA == <<"A", "@", "b", ".", "c">>
NoAt == <<"a", "b">>
Blank == <<" ">>

\* The bodies a client sends to POST /add-entry.
RawEmails ==
    {Undefined, NonString, Str(Blank), Str(NoAt), Str(PlainA), Str(PaddedA), Str(UpperA)}

\* The bodies a client sends to DELETE /delete-entry.
DeleteEmails == {Undefined, Str(PlainA), Str(PaddedA), Str(UpperA)}

IsSpace(c) == c = " "

\* String.prototype.trim: drop leading and trailing whitespace.
RECURSIVE TrimLeft(_)
TrimLeft(s) ==
    IF s # <<>> /\ IsSpace(Head(s)) THEN TrimLeft(Tail(s)) ELSE s

RECURSIVE TrimRight(_)
TrimRight(s) ==
    IF s # <<>> /\ IsSpace(s[Len(s)]) THEN TrimRight(SubSeq(s, 1, Len(s) - 1)) ELSE s

Trim(s) == TrimRight(TrimLeft(s))

\* email?.trim(): undefined stays undefined, a string is trimmed.  (A value
\* with no trim method makes the call throw; see AddEntry.)
CleanedEmail(raw) ==
    IF raw.kind = "string" THEN Str(Trim(raw.chars)) ELSE Undefined

Positions(s, c) == {i \in 1..Len(s) : s[i] = c}

\* validator.isEmail on the small alphabet of the model: one "@", a non-empty
\* local part, a domain with a dot between two non-empty labels, no blanks.
IsEmail(s) ==
    /\ Cardinality(Positions(s, "@")) = 1
    /\ Positions(s, " ") = {}
    /\ LET at == CHOOSE i \in Positions(s, "@") : TRUE
       IN /\ at > 1
          /\ \E d \in Positions(s, ".") : d > at + 1 /\ d < Len(s)

\* !cleanedEmail || !validator.isEmail(cleanedEmail)
InvalidEmail(cleaned) ==
    \/ cleaned.kind # "string"
    \/ cleaned.chars = <<>>
    \/ ~IsEmail(cleaned.chars)

\* --------------------------------------------------------------------- state
VARIABLES
    store,        \* documents of the "waitlist" collection: [id, email]
    op,           \* op[t]: the route request t called, "none" before it arrives
    body,         \* body[t]: req.body.email of request t
    pc,           \* pc[t]: the await request t is suspended at
    snap,         \* snap[t]: the docs of the querySnapshot request t read
    pending,      \* pending[t]: ids whose delete() promise has not settled
    response,     \* response[t]: HTTP status sent, 0 while none is sent
    storeCalls,   \* storeCalls[t]: store calls request t has issued
    inserted,     \* inserted[t]: add() calls of request t that took effect
    mailCalls,    \* mailCalls[t]: transporter.sendMail calls request t has made
    notified,     \* notified[t]: how the sendMail call of request t settled
    raced,        \* pairs of add-entry requests whose query-insert windows overlapped
    listener      \* listener[id]: the onSnapshot callback run for doc id (part_000)

vars ==
    <<store, op, body, pc, snap, pending, response, storeCalls, inserted, mailCalls,
      notified, raced, listener>>

Doc(id, email) == [id |-> id, email |-> email]

\* db.collection("waitlist").where("email", "==", email).get()
WhereEmail(docs, email) == {d \in docs : d.email = email}

Ids(docs) == {d.id : d \in docs}

\* Documents the collection may hold when the server starts (ids the store
\* assigned earlier): none, one, two of different emails, or two of the same
\* email left behind by an earlier registration race.
SeedIds == {-1, 0}

InitStores ==
    { {},
      {Doc(0, Str(PlainA))},
      {Doc(0, Str(PlainA)), Doc(-1, Str(UpperA))},
      {Doc(0, Str(PlainA)), Doc(-1, Str(PlainA))} }

DocIds == SeedIds \cup Tasks

\* The listener has seen no change for a doc id.
NoChange == [st |-> "none", email |-> Undefined, mails |-> 0]

Init ==
    /\ store \in InitStores
    /\ op = [t \in Tasks |-> "none"]
    /\ body = [t \in Tasks |-> Undefined]
    /\ pc = [t \in Tasks |-> "idle"]
    /\ snap = [t \in Tasks |-> {}]
    /\ pending = [t \in Tasks |-> {}]
    /\ response = [t \in Tasks |-> 0]
    /\ storeCalls = [t \in Tasks |-> 0]
    /\ inserted = [t \in Tasks |-> 0]
    /\ mailCalls = [t \in Tasks |-> 0]
    /\ notified = [t \in Tasks |-> "none"]
    /\ raced = {}
    /\ listener = [id \in DocIds |-> NoChange]

\* Requests arrive one after another; t is the next one to arrive.
Arrives(t) ==
    /\ pc[t] = "idle"
    /\ \A u \in Tasks : u < t => pc[u] # "idle"

\* Faulty variant of Cleaned: the body is used as sent, without trimming.
Uncleaned(t) == body[t]

\* The handler's normalised email (const cleanedEmail).
Cleaned(t) == CleanedEmail(body[t])

\* ------------------------------------------------------- POST /add-entry
\* The request arrives; the handler runs up to its first await.
AddEntry(t, raw) ==
    /\ Arrives(t)
    /\ op' = [op EXCEPT ![t] = "add"]
    /\ body' = [body EXCEPT ![t] = raw]
    /\ IF raw.kind = "number"
       THEN \* email.trim is not a function: thrown before the try block
            /\ pc' = [pc EXCEPT ![t] = "threw"]
            /\ UNCHANGED <<response, storeCalls>>
       ELSE IF InvalidEmail(CleanedEmail(raw))
       THEN /\ pc' = [pc EXCEPT ![t] = "done"]
            /\ response' = [response EXCEPT ![t] = 400]
            /\ UNCHANGED storeCalls
       ELSE /\ pc' = [pc EXCEPT ![t] = "query"]
            /\ storeCalls' = [storeCalls EXCEPT ![t] = 1]
            /\ UNCHANGED response
    /\ UNCHANGED <<store, snap, pending, inserted, mailCalls, notified, raced, listener>>

\* Faulty variant of AddQuery: the 409 branch lacks its return, so the handler goes
\* on to the insert after answering.
AddQueryNoReturn(t) ==
    /\ pc[t] = "query"
    /\ op[t] = "add"
    /\ LET found == WhereEmail(store, CleanedEmail(body[t]))
       IN /\ snap' = [snap EXCEPT ![t] = found]
          /\ pc' = [pc EXCEPT ![t] = "insert"]
          /\ storeCalls' = [storeCalls EXCEPT ![t] = 2]
          /\ response' = [response EXCEPT ![t] = IF found # {} THEN 409 ELSE 0]
    /\ UNCHANGED <<store, op, body, pending, inserted, mailCalls, notified, raced,
                   listener>>

\* The duplicate query runs at the store and the handler resumes.
AddQuery(t) ==
    /\ pc[t] = "query"
    /\ op[t] = "add"
    /\ LET found == WhereEmail(store, Cleaned(t))
       IN /\ snap' = [snap EXCEPT ![t] = found]
          /\ IF found # {}
             THEN /\ pc' = [pc EXCEPT ![t] = "done"]
                  /\ response' = [response EXCEPT ![t] = 409]
                  /\ UNCHANGED <<storeCalls, raced>>
             ELSE /\ pc' = [pc EXCEPT ![t] = "insert"]
                  /\ storeCalls' = [storeCalls EXCEPT ![t] = 2]
                  /\ raced' = raced \cup
                        {{t, u} : u \in {v \in Tasks \ {t} :
                            /\ op[v] = "add"
                            /\ pc[v] = "insert"
                            /\ Cleaned(v) = Cleaned(t)}}
                  /\ UNCHANGED response
    /\ UNCHANGED <<store, op, body, pending, inserted, mailCalls, notified, listener>>

\* Faulty variant of AddStoreFails: a rejected insert is swallowed and the handler
\* goes on to send the confirmation mail.
AddStoreFailsSwallowed(t) ==
    /\ pc[t] \in {"query", "insert"}
    /\ op[t] = "add"
    /\ IF pc[t] = "insert"
       THEN /\ pc' = [pc EXCEPT ![t] = "notify"]
            /\ mailCalls' = [mailCalls EXCEPT ![t] = @ + 1]
            /\ UNCHANGED response
       ELSE /\ pc' = [pc EXCEPT ![t] = "done"]
            /\ response' = [response EXCEPT ![t] = 500]
            /\ UNCHANGED mailCalls
    /\ UNCHANGED <<store, op, body, snap, pending, storeCalls, inserted, notified, raced,
                   listener>>

\* A store call of the add-entry handler rejects: the catch block answers 500.
AddStoreFails(t) ==
    /\ pc[t] \in {"query", "insert"}
    /\ op[t] = "add"
    /\ pc' = [pc EXCEPT ![t] = "done"]
    /\ response' = [response EXCEPT ![t] = 500]
    /\ UNCHANGED <<store, op, body, snap, pending, storeCalls, inserted, mailCalls,
                   notified, raced, listener>>

\* Faulty variant of Inserted: insert-if-absent, the store refuses a second doc of
\* an email it holds.
InsertedIfAbsent(docs, t, email) ==
    IF WhereEmail(docs, email) # {} THEN docs ELSE docs \cup {Doc(t, email)}

\* Faulty variant of Inserted: the write is lost.
InsertedNowhere(docs, t, email) == docs

\* db.collection("waitlist").add({ email: cleanedEmail })
Inserted(docs, t, email) == docs \cup {Doc(t, email)}

\* Faulty variant of AddInsert: sendConfirmationEmail is not awaited, the handler
\* answers 200 at once.
AddInsertNoAwait(t) ==
    /\ pc[t] = "insert"
    /\ op[t] = "add"
    /\ store' = store \cup {Doc(t, CleanedEmail(body[t]))}
    /\ inserted' = [inserted EXCEPT ![t] = @ + 1]
    /\ mailCalls' = [mailCalls EXCEPT ![t] = @ + 1]
    /\ response' = [response EXCEPT ![t] = 200]
    /\ pc' = [pc EXCEPT ![t] = "done"]
    /\ UNCHANGED <<op, body, snap, pending, storeCalls, notified, raced, listener>>

\* The insert takes effect and the handler calls sendConfirmationEmail.
AddInsert(t) ==
    /\ pc[t] = "insert"
    /\ op[t] = "add"
    /\ store' = Inserted(store, t, Cleaned(t))
    /\ inserted' = [inserted EXCEPT ![t] = @ + 1]
    /\ mailCalls' = [mailCalls EXCEPT ![t] = @ + 1]
    /\ pc' = [pc EXCEPT ![t] = "notify"]
    /\ UNCHANGED <<op, body, snap, pending, response, storeCalls, notified, raced,
                   listener>>

\* Faulty variant of AddNotify: sendConfirmationEmail lets the rejection through to
\* the handler's catch block, which answers 500.
AddNotifyThrows(t, outcome) ==
    /\ pc[t] = "notify"
    /\ op[t] = "add"
    /\ notified' = [notified EXCEPT ![t] = outcome]
    /\ IF outcome = "fail"
       THEN /\ pc' = [pc EXCEPT ![t] = "done"]
            /\ response' = [response EXCEPT ![t] = 500]
       ELSE /\ pc' = [pc EXCEPT ![t] = "respond"]
            /\ UNCHANGED response
    /\ UNCHANGED <<store, op, body, snap, pending, storeCalls, inserted, mailCalls, raced,
                   listener>>

\* transporter.sendMail settles; a rejection is caught and logged.
AddNotify(t, outcome) ==
    /\ pc[t] = "notify"
    /\ op[t] = "add"
    /\ notified' = [notified EXCEPT ![t] = outcome]
    /\ pc' = [pc EXCEPT ![t] = "respond"]
    /\ UNCHANGED <<store, op, body, snap, pending, response, storeCalls, inserted,
                   mailCalls,
                   raced, listener>>

\* res.status(200).json(...)
AddRespond(t) ==
    /\ pc[t] = "respond"
    /\ op[t] = "add"
    /\ response' = [response EXCEPT ![t] = 200]
    /\ pc' = [pc EXCEPT ![t] = "done"]
    /\ UNCHANGED <<store, op, body, snap, pending, storeCalls, inserted, mailCalls,
                   notified, raced, listener>>

\* -------------------------------------------------- GET /get-all-entries
\* The request arrives and the handler awaits collection("waitlist").get().
GetAllEntries(t) ==
    /\ Arrives(t)
    /\ op' = [op EXCEPT ![t] = "list"]
    /\ pc' = [pc EXCEPT ![t] = "query"]
    /\ storeCalls' = [storeCalls EXCEPT ![t] = 1]
    /\ UNCHANGED <<store, body, snap, pending, response, inserted, mailCalls, notified,
                   raced, listener>>

\* The read runs at the store; every doc's data is pushed and sent with 200.
ListQuery(t) ==
    /\ pc[t] = "query"
    /\ op[t] = "list"
    /\ snap' = [snap EXCEPT ![t] = store]
    /\ response' = [response EXCEPT ![t] = 200]
    /\ pc' = [pc EXCEPT ![t] = "done"]
    /\ UNCHANGED <<store, op, body, pending, storeCalls, inserted, mailCalls, notified,
                   raced, listener>>

\* The initial read of a list or delete handler rejects: its catch answers 500.
ReadFails(t) ==
    /\ pc[t] = "query"
    /\ op[t] \in {"list", "delete", "deleteAll"}
    /\ pc' = [pc EXCEPT ![t] = "done"]
    /\ response' = [response EXCEPT ![t] = 500]
    /\ UNCHANGED <<store, op, body, snap, pending, storeCalls, inserted, mailCalls,
                   notified, raced, listener>>

\* ------------------------------------------------- DELETE /delete-entry
\* The request arrives.  where("email", "==", undefined) is rejected by the
\* client library inside the try block; any other value is queried as sent.
DeleteEntry(t, raw) ==
    /\ Arrives(t)
    /\ op' = [op EXCEPT ![t] = "delete"]
    /\ body' = [body EXCEPT ![t] = raw]
    /\ IF raw.kind = "undefined"
       THEN /\ pc' = [pc EXCEPT ![t] = "done"]
            /\ response' = [response EXCEPT ![t] = 500]
            /\ UNCHANGED storeCalls
       ELSE /\ pc' = [pc EXCEPT ![t] = "query"]
            /\ storeCalls' = [storeCalls EXCEPT ![t] = 1]
            /\ UNCHANGED response
    /\ UNCHANGED <<store, snap, pending, inserted, mailCalls, notified, raced, listener>>

\* -------------------------------------------- DELETE /delete-all-entries
DeleteAllEntries(t) ==
    /\ Arrives(t)
    /\ op' = [op EXCEPT ![t] = "deleteAll"]
    /\ pc' = [pc EXCEPT ![t] = "query"]
    /\ storeCalls' = [storeCalls EXCEPT ![t] = 1]
    /\ UNCHANGED <<store, body, snap, pending, response, inserted, mailCalls, notified,
                   raced, listener>>

\* Faulty variant of Selected: the where("email", "==", email) filter is
\* missing from the read of delete-entry.
SelectedUnfiltered(t, docs) == docs

\* The docs a delete handler's initial read selects.
Selected(t, docs) ==
    IF op[t] = "delete" THEN WhereEmail(docs, body[t]) ELSE docs

\* Faulty variant of DeleteQuery: the empty-snapshot check is missing, so an
\* empty read goes on to Promise.all of no promises and is answered 200.
DeleteQueryNoCheck(t) ==
    /\ pc[t] = "query"
    /\ op[t] \in {"delete", "deleteAll"}
    /\ LET found == IF op[t] = "delete" THEN WhereEmail(store, body[t]) ELSE store
       IN /\ snap' = [snap EXCEPT ![t] = found]
          /\ pc' = [pc EXCEPT ![t] = "deleting"]
          /\ pending' = [pending EXCEPT ![t] = Ids(found)]
          /\ storeCalls' = [storeCalls EXCEPT ![t] = 1 + Cardinality(found)]
    /\ UNCHANGED <<store, op, body, response, inserted, mailCalls, notified, raced,
                   listener>>

\* The initial read runs: 404 on an empty snapshot, else one delete() call is
\* issued per doc (querySnapshot.docs.map) and Promise.all is awaited.
DeleteQuery(t) ==
    /\ pc[t] = "query"
    /\ op[t] \in {"delete", "deleteAll"}
    /\ LET found == Selected(t, store)
       IN /\ snap' = [snap EXCEPT ![t] = found]
          /\ IF found = {}
             THEN /\ pc' = [pc EXCEPT ![t] = "done"]
                  /\ response' = [response EXCEPT ![t] = 404]
                  /\ UNCHANGED <<pending, storeCalls>>
             ELSE /\ pc' = [pc EXCEPT ![t] = "deleting"]
                  /\ pending' = [pending EXCEPT ![t] = Ids(found)]
                  /\ storeCalls' = [storeCalls EXCEPT ![t] = 1 + Cardinality(found)]
                  /\ UNCHANGED response
    /\ UNCHANGED <<store, op, body, inserted, mailCalls, notified, raced, listener>>

\* Faulty variant of Removed: delete() empties the collection instead of
\* removing the one doc.
RemovedCollection(docs, id) == {}

\* doc(id).delete(): removes the doc; deleting an absent doc succeeds too.
Removed(docs, id) == {d \in docs : d.id # id}

\* One delete() promise of request t fulfils.
DeleteDoc(t, id) ==
    /\ id \in pending[t]
    /\ store' = Removed(store, id)
    /\ pending' = [pending EXCEPT ![t] = @ \ {id}]
    /\ UNCHANGED <<op, body, pc, snap, response, storeCalls, inserted, mailCalls,
                   notified, raced, listener>>

\* One delete() promise of request t rejects.  Promise.all rejects with the
\* first rejection, and the catch block answers 500 if nothing was sent yet.
DeleteDocFails(t, id) ==
    /\ id \in pending[t]
    /\ pending' = [pending EXCEPT ![t] = @ \ {id}]
    /\ IF pc[t] = "deleting"
       THEN /\ pc' = [pc EXCEPT ![t] = "done"]
            /\ response' = [response EXCEPT ![t] = 500]
       ELSE UNCHANGED <<pc, response>>
    /\ UNCHANGED <<store, op, body, snap, storeCalls, inserted, mailCalls, notified,
                   raced, listener>>

\* Faulty variant of AllSettled: the delete() promises are not awaited.
NotAwaited(t) == TRUE

\* Promise.all has fulfilled (every delete() did): the handler answers 200.
AllSettled(t) == pending[t] = {}

DeleteRespond(t) ==
    /\ pc[t] = "deleting"
    /\ AllSettled(t)
    /\ response' = [response EXCEPT ![t] = 200]
    /\ pc' = [pc EXCEPT ![t] = "done"]
    /\ UNCHANGED <<store, op, body, snap, pending, storeCalls, inserted, mailCalls,
                   notified, raced, listener>>

\* What the 200 answer of a delete handler carries: the text "Deleted entry:"
\* with the email of the body interpolated (delete-entry) or the fixed text
\* "Deleted all entries"; neither carries a number.
Reply(t) ==
    [emails |-> IF op[t] = "delete" THEN {body[t]} ELSE {},
     counts |-> {}]

Next ==
    \/ \E t \in Tasks, raw \in RawEmails : AddEntry(t, raw)
    \/ \E t \in Tasks : AddQuery(t)
    \/ \E t \in Tasks : AddStoreFails(t)
    \/ \E t \in Tasks : AddInsert(t)
    \/ \E t \in Tasks, outcome \in {"ok", "fail"} : AddNotify(t, outcome)
    \/ \E t \in Tasks : AddRespond(t)
    \/ \E t \in Tasks : GetAllEntries(t)
    \/ \E t \in Tasks : ListQuery(t)
    \/ \E t \in Tasks : ReadFails(t)
    \/ \E t \in Tasks, raw \in DeleteEmails : DeleteEntry(t, raw)
    \/ \E t \in Tasks : DeleteAllEntries(t)
    \/ \E t \in Tasks : DeleteQuery(t)
    \/ \E t \in Tasks, id \in DocIds : DeleteDoc(t, id)
    \/ \E t \in Tasks, id \in DocIds : DeleteDocFails(t, id)
    \/ \E t \in Tasks : DeleteRespond(t)

Spec == Init /\ [][Next]_vars

\* ----------------------------------------------------------------------
\* The earlier revision of the server (src/unnamed/part_000): no trimming
\* or validation, a collection listener, and deletes that are not awaited.
\* ----------------------------------------------------------------------

\* The change record the listener callback receives for an added doc.
Seen(email) == [st |-> "added", email |-> email, mails |-> 0]

\* The first snapshot reports every doc already in the collection as added.
InitOld ==
    /\ store \in InitStores
    /\ op = [t \in Tasks |-> "none"]
    /\ body = [t \in Tasks |-> Undefined]
    /\ pc = [t \in Tasks |-> "idle"]
    /\ snap = [t \in Tasks |-> {}]
    /\ pending = [t \in Tasks |-> {}]
    /\ response = [t \in Tasks |-> 0]
    /\ storeCalls = [t \in Tasks |-> 0]
    /\ inserted = [t \in Tasks |-> 0]
    /\ mailCalls = [t \in Tasks |-> 0]
    /\ notified = [t \in Tasks |-> "none"]
    /\ raced = {}
    /\ listener = [id \in DocIds |->
          IF \E d \in store : d.id = id
          THEN Seen((CHOOSE d \in store : d.id = id).email)
          ELSE NoChange]

\* POST /add-entry arrives: isDuplicateEntry(email) with the body value as sent.
OldAddEntry(t, raw) ==
    /\ Arrives(t)
    /\ op' = [op EXCEPT ![t] = "add"]
    /\ body' = [body EXCEPT ![t] = raw]
    /\ IF raw.kind = "undefined"
       THEN \* where("email", "==", undefined) is rejected inside the try block
            /\ pc' = [pc EXCEPT ![t] = "done"]
            /\ response' = [response EXCEPT ![t] = 500]
            /\ UNCHANGED storeCalls
       ELSE /\ pc' = [pc EXCEPT ![t] = "query"]
            /\ storeCalls' = [storeCalls EXCEPT ![t] = 1]
            /\ UNCHANGED response
    /\ UNCHANGED <<store, snap, pending, inserted, mailCalls, notified, raced, listener>>

\* isDuplicateEntry resolves.
OldAddQuery(t) ==
    /\ pc[t] = "query"
    /\ op[t] = "add"
    /\ LET found == WhereEmail(store, body[t])
       IN /\ snap' = [snap EXCEPT ![t] = found]
          /\ IF found # {}
             THEN /\ pc' = [pc EXCEPT ![t] = "done"]
                  /\ response' = [response EXCEPT ![t] = 409]
                  /\ UNCHANGED <<storeCalls, raced>>
             ELSE /\ pc' = [pc EXCEPT ![t] = "insert"]
                  /\ storeCalls' = [storeCalls EXCEPT ![t] = 2]
                  /\ raced' = raced \cup
                        {{t, u} : u \in {v \in Tasks \ {t} :
                            /\ op[v] = "add"
                            /\ pc[v] = "insert"
                            /\ body[v] = body[t]}}
                  /\ UNCHANGED response
    /\ UNCHANGED <<store, op, body, pending, inserted, mailCalls, notified, listener>>

\* isDuplicateEntry or add() rejects: the catch block answers 500.
OldAddStoreFails(t) ==
    /\ pc[t] \in {"query", "insert"}
    /\ op[t] = "add"
    /\ pc' = [pc EXCEPT ![t] = "done"]
    /\ response' = [response EXCEPT ![t] = 500]
    /\ UNCHANGED <<store, op, body, snap, pending, storeCalls, inserted, mailCalls,
                   notified,
                   raced, listener>>

\* add({ email }) takes effect: the collection listener is told of the new
\* doc, and the handler calls sendConfirmationEmail.
OldAddInsert(t) ==
    /\ pc[t] = "insert"
    /\ op[t] = "add"
    /\ store' = Inserted(store, t, body[t])
    /\ listener' = [listener EXCEPT ![t] = Seen(body[t])]
    /\ inserted' = [inserted EXCEPT ![t] = @ + 1]
    /\ mailCalls' = [mailCalls EXCEPT ![t] = @ + 1]
    /\ pc' = [pc EXCEPT ![t] = "notify"]
    /\ UNCHANGED <<op, body, snap, pending, response, storeCalls, notified, raced>>

OldAddNotify(t, outcome) ==
    /\ pc[t] = "notify"
    /\ op[t] = "add"
    /\ notified' = [notified EXCEPT ![t] = outcome]
    /\ pc' = [pc EXCEPT ![t] = "respond"]
    /\ UNCHANGED <<store, op, body, snap, pending, response, storeCalls, inserted,
                   mailCalls,
                   raced, listener>>

OldAddRespond(t) ==
    /\ pc[t] = "respond"
    /\ op[t] = "add"
    /\ response' = [response EXCEPT ![t] = 200]
    /\ pc' = [pc EXCEPT ![t] = "done"]
    /\ UNCHANGED <<store, op, body, snap, pending, storeCalls, inserted, mailCalls,
                   notified,
                   raced, listener>>

\* The listener callback of an added doc: its isDuplicateEntry query runs at
\* the store; sendConfirmationEmail is called when no doc has the email.
ListenerQuery(id) ==
    /\ listener[id].st = "added"
    /\ listener' = [listener EXCEPT ![id] =
          IF WhereEmail(store, @.email) # {}
          THEN [@ EXCEPT !.st = "skipped"]
          ELSE [@ EXCEPT !.st = "mail", !.mails = @ + 1]]
    /\ UNCHANGED <<store, op, body, pc, snap, pending, response, storeCalls, inserted,
                   mailCalls, notified, raced>>

\* The listener's query rejects inside the async callback: nothing catches it.
ListenerQueryFails(id) ==
    /\ listener[id].st = "added"
    /\ listener' = [listener EXCEPT ![id].st = "threw"]
    /\ UNCHANGED <<store, op, body, pc, snap, pending, response, storeCalls, inserted,
                   mailCalls, notified, raced>>

\* The listener's sendMail settles.
ListenerNotify(id, outcome) ==
    /\ listener[id].st = "mail"
    /\ listener' = [listener EXCEPT ![id].st = outcome]
    /\ UNCHANGED <<store, op, body, pc, snap, pending, response, storeCalls, inserted,
                   mailCalls, notified, raced>>

\* GET /get-all-entries
OldGetAllEntries(t) ==
    /\ Arrives(t)
    /\ op' = [op EXCEPT ![t] = "list"]
    /\ pc' = [pc EXCEPT ![t] = "query"]
    /\ storeCalls' = [storeCalls EXCEPT ![t] = 1]
    /\ UNCHANGED <<store, body, snap, pending, response, inserted, mailCalls, notified,
                   raced,
                   listener>>

OldListQuery(t) ==
    /\ pc[t] = "query"
    /\ op[t] = "list"
    /\ snap' = [snap EXCEPT ![t] = store]
    /\ response' = [response EXCEPT ![t] = 200]
    /\ pc' = [pc EXCEPT ![t] = "done"]
    /\ UNCHANGED <<store, op, body, pending, storeCalls, inserted, mailCalls, notified,
                   raced,
                   listener>>

OldReadFails(t) ==
    /\ pc[t] = "query"
    /\ op[t] \in {"list", "delete", "deleteAll"}
    /\ pc' = [pc EXCEPT ![t] = "done"]
    /\ response' = [response EXCEPT ![t] = 500]
    /\ UNCHANGED <<store, op, body, snap, pending, storeCalls, inserted, mailCalls,
                   notified,
                   raced, listener>>

\* DELETE /delete-entry
OldDeleteEntry(t, raw) ==
    /\ Arrives(t)
    /\ op' = [op EXCEPT ![t] = "delete"]
    /\ body' = [body EXCEPT ![t] = raw]
    /\ IF raw.kind = "undefined"
       THEN /\ pc' = [pc EXCEPT ![t] = "done"]
            /\ response' = [response EXCEPT ![t] = 500]
            /\ UNCHANGED storeCalls
       ELSE /\ pc' = [pc EXCEPT ![t] = "query"]
            /\ storeCalls' = [storeCalls EXCEPT ![t] = 1]
            /\ UNCHANGED response
    /\ UNCHANGED <<store, snap, pending, inserted, mailCalls, notified, raced, listener>>

\* DELETE /delete-all-entries
OldDeleteAllEntries(t) ==
    /\ Arrives(t)
    /\ op' = [op EXCEPT ![t] = "deleteAll"]
    /\ pc' = [pc EXCEPT ![t] = "query"]
    /\ storeCalls' = [storeCalls EXCEPT ![t] = 1]
    /\ UNCHANGED <<store, body, snap, pending, response, inserted, mailCalls, notified,
                   raced,
                   listener>>

\* The initial read runs: 404 on an empty snapshot; else forEach starts one
\* async callback per doc (each issues its delete()) and, without awaiting
\* them, the handler answers 200.
OldDeleteQuery(t) ==
    /\ pc[t] = "query"
    /\ op[t] \in {"delete", "deleteAll"}
    /\ LET found == Selected(t, store)
       IN /\ snap' = [snap EXCEPT ![t] = found]
          /\ pc' = [pc EXCEPT ![t] = "done"]
          /\ IF found = {}
             THEN /\ response' = [response EXCEPT ![t] = 404]
                  /\ UNCHANGED <<pending, storeCalls>>
             ELSE /\ response' = [response EXCEPT ![t] = 200]
                  /\ pending' = [pending EXCEPT ![t] = Ids(found)]
                  /\ storeCalls' = [storeCalls EXCEPT ![t] = 1 + Cardinality(found)]
    /\ UNCHANGED <<store, op, body, inserted, mailCalls, notified, raced, listener>>

\* One delete() of request t fulfils.
OldDeleteDoc(t, id) ==
    /\ id \in pending[t]
    /\ store' = Removed(store, id)
    /\ pending' = [pending EXCEPT ![t] = @ \ {id}]
    /\ UNCHANGED <<op, body, pc, snap, response, storeCalls, inserted, mailCalls, notified,
                   raced, listener>>

\* One delete() of request t rejects inside its async callback: nothing
\* catches it, and the response already sent stands.
OldDeleteDocFails(t, id) ==
    /\ id \in pending[t]
    /\ pending' = [pending EXCEPT ![t] = @ \ {id}]
    /\ UNCHANGED <<store, op, body, pc, snap, response, storeCalls, inserted, mailCalls,
                   notified, raced, listener>>

NextOld ==
    \/ \E t \in Tasks, raw \in RawEmails : OldAddEntry(t, raw)
    \/ \E t \in Tasks : OldAddQuery(t)
    \/ \E t \in Tasks : OldAddStoreFails(t)
    \/ \E t \in Tasks : OldAddInsert(t)
    \/ \E t \in Tasks, outcome \in {"ok", "fail"} : OldAddNotify(t, outcome)
    \/ \E t \in Tasks : OldAddRespond(t)
    \/ \E id \in DocIds : ListenerQuery(id)
    \/ \E id \in DocIds : ListenerQueryFails(id)
    \/ \E id \in DocIds, outcome \in {"ok", "fail"} : ListenerNotify(id, outcome)
    \/ \E t \in Tasks : OldGetAllEntries(t)
    \/ \E t \in Tasks : OldListQuery(t)
    \/ \E t \in Tasks : OldReadFails(t)
    \/ \E t \in Tasks, raw \in DeleteEmails : OldDeleteEntry(t, raw)
    \/ \E t \in Tasks : OldDeleteAllEntries(t)
    \/ \E t \in Tasks : OldDeleteQuery(t)
    \/ \E t \in Tasks, id \in DocIds : OldDeleteDoc(t, id)
    \/ \E t \in Tasks, id \in DocIds : OldDeleteDocFails(t, id)

SpecOld == InitOld /\ [][NextOld]_vars


\* ----------------------------------------------------------------------
\* Properties
\* ----------------------------------------------------------------------
Deletes == {"delete", "deleteAll"}

\* No request other than those of S has arrived.
Quiet(S) == \A v \in Tasks \ S : op[v] = "none"

NoDeletes == \A v \in Tasks : op[v] \notin Deletes

CountEmail(docs, email) == Cardinality(WhereEmail(docs, email))

\* An add-entry body that is a string passing trim and the format check.
ValidBody(t) == body[t].kind = "string" /\ ~InvalidEmail(Cleaned(t))

\* ---------------------------------------------------------------- C1
\* C1: two add-entry requests for the same email whose duplicate queries
\* both ran before either insert (on a store without that email) and whose
\* store calls succeed both answer 200, each makes one notification attempt,
\* and, no delete having run, both of their docs are stored: two entries for
\* the email when no other request took part.
RaceBothSucceed ==
    \A t, u \in Tasks :
        ( /\ t # u
          /\ {t, u} \in raced
          /\ pc[t] = "done" /\ pc[u] = "done"
          /\ response[t] # 500 /\ response[u] # 500 )
        => /\ response[t] = 200 /\ response[u] = 200
           /\ mailCalls[t] = 1 /\ mailCalls[u] = 1
           /\ NoDeletes => {Doc(t, Cleaned(t)), Doc(u, Cleaned(u))} \subseteq store
           /\ Quiet({t, u}) => CountEmail(store, Cleaned(t)) = 2

\* The race has happened: both answered 200 and two entries hold the email.
RaceReached ==
    \E t, u \in Tasks :
        /\ t # u
        /\ {t, u} \in raced
        /\ snap[t] = {} /\ snap[u] = {}
        /\ response[t] = 200 /\ response[u] = 200
        /\ mailCalls[t] = 1 /\ mailCalls[u] = 1
        /\ CountEmail(store, Cleaned(t)) = 2

\* ---------------------------------------------------------------- C2
\* t and u are the only requests, both add-entry with the same valid email,
\* on a store that held no entry for it.
TwoRegisters(t, u) ==
    /\ t # u
    /\ op[t] = "add" /\ op[u] = "add"
    /\ ValidBody(t) /\ ValidBody(u)
    /\ Cleaned(t) = Cleaned(u)
    /\ Quiet({t, u})
    /\ \A d \in store : d.id \in SeedIds => d.email # Cleaned(t)

\* A step of add-entry request t in which the awaited call succeeds.
AddStep(t) ==
    \/ AddQuery(t)
    \/ AddInsert(t)
    \/ \E outcome \in {"ok", "fail"} : AddNotify(t, outcome)
    \/ AddRespond(t)

\* C2: of exactly two add-entry requests with the same valid email on a store
\* without it, with no store failure, each can always take its next step until
\* it has answered (no deadlock, no crash), each answers 200 or 409, and once
\* both have answered the store holds 1 or 2 entries for the email.
TwoRegistersSettle ==
    \A t, u \in Tasks :
        (TwoRegisters(t, u) /\ response[t] # 500 /\ response[u] # 500)
        => /\ pc[t] # "done" => ENABLED AddStep(t)
           /\ pc[t] = "done" => response[t] \in {200, 409}
           /\ (pc[t] = "done" /\ pc[u] = "done")
                => CountEmail(store, Cleaned(t)) \in {1, 2}

\* Both requests have answered, one after the other: one entry.
TwoRegistersDone ==
    \E t, u \in Tasks :
        /\ TwoRegisters(t, u)
        /\ response[t] = 200 /\ response[u] = 409
        /\ CountEmail(store, Cleaned(t)) = 1

\* ---------------------------------------------------------------- C3
\* C3: as long as no two add-entry requests for the same email overlapped
\* between duplicate query and insert, the store holds at most one entry per
\* normalized email (entries that were both there at startup aside).
NoOverlapUnique ==
    raced = {} =>
        \A d1, d2 \in store :
            (d1 # d2 /\ CleanedEmail(d1.email) = CleanedEmail(d2.email))
            => {d1.id, d2.id} \subseteq SeedIds

\* Two requests for one email, differently padded, ran without overlap: the
\* first inserted, the second was refused.
NoOverlapReached ==
    /\ raced = {}
    /\ \E t, u \in Tasks :
        /\ op[t] = "add" /\ op[u] = "add"
        /\ body[t] # body[u]
        /\ Cleaned(t) = Cleaned(u)
        /\ response[t] = 200 /\ response[u] = 409
        /\ Ids(WhereEmail(store, Cleaned(t))) = {t}

\* ---------------------------------------------------------------- C4
\* The duplicate query of request t runs (and does not fail) in this step.
QueryRuns(t) ==
    /\ op[t] = "add"
    /\ pc[t] = "query"
    /\ pc'[t] # "query"
    /\ response'[t] # 500

\* C4: when the duplicate query of an add-entry request runs while the store
\* holds an entry whose email equals the trimmed body exactly, the request
\* answers 409 in that step, the store is left as it was, and the request
\* never inserts nor notifies.
DuplicateRejected ==
    /\ [][\A t \in Tasks :
            ( /\ QueryRuns(t)
              /\ body[t].kind = "string"
              /\ \E d \in store : d.email = Str(Trim(body[t].chars)) )
            => /\ response'[t] = 409
               /\ pc'[t] = "done"
               /\ store' = store
               /\ storeCalls'[t] = 1]_vars
    /\ [](\A t \in Tasks :
            (op[t] = "add" /\ response[t] = 409)
            => /\ pc[t] = "done"
               /\ inserted[t] = 0
               /\ mailCalls[t] = 0
               /\ notified[t] = "none"
               /\ t \notin Ids(store))

\* A padded body was refused because its trimmed value was stored.
DuplicateReached ==
    \E t \in Tasks :
        /\ op[t] = "add"
        /\ body[t] = Str(PaddedA)
        /\ response[t] = 409
        /\ \E d \in snap[t] : d.email = Str(PlainA)

\* ---------------------------------------------------------------- C5
\* C5: an add-entry request with a valid email that its duplicate query did
\* not find, and whose store calls succeed, answers 200; and a get-all-entries
\* read that runs after that answer, no other request having taken part,
\* returns exactly one entry with the email.
RegisterThenList ==
    /\ [](\A t \in Tasks :
            ( /\ op[t] = "add"
              /\ ValidBody(t)
              /\ pc[t] = "done"
              /\ response[t] # 500
              /\ snap[t] = {} )
            => response[t] = 200)
    /\ [][\A t, u \in Tasks :
            ( /\ op[t] = "add"
              /\ response[t] = 200
              /\ Quiet({t, u})
              /\ op[u] = "list"
              /\ pc[u] = "query"
              /\ response'[u] = 200 )
            => CountEmail(snap'[u], Cleaned(t)) = 1]_vars

\* A list read after a successful registration returned its one entry.
RegisterThenListReached ==
    \E t, u \in Tasks :
        /\ op[t] = "add" /\ response[t] = 200
        /\ op[u] = "list" /\ response[u] = 200
        /\ Quiet({t, u})
        /\ WhereEmail(snap[u], Cleaned(t)) = {Doc(t, Cleaned(t))}

\* ---------------------------------------------------------------- C6
\* The body's email is missing, empty after trimming, or fails the format check.
BadInput(t) ==
    \/ body[t].kind = "undefined"
    \/ /\ body[t].kind = "string"
       /\ \/ Trim(body[t].chars) = <<>>
          \/ ~IsEmail(Trim(body[t].chars))

\* C6: an add-entry request whose email is missing, empty after trimming or
\* ill-formed answers 400 and makes no store call and no notifier call; it
\* adds nothing to the store.
InvalidInputRejected ==
    \A t \in Tasks :
        (op[t] = "add" /\ BadInput(t))
        => /\ response[t] = 400
           /\ pc[t] = "done"
           /\ storeCalls[t] = 0
           /\ mailCalls[t] = 0
           /\ inserted[t] = 0
           /\ t \notin Ids(store)

\* All three kinds of bad input have been refused.
InvalidInputReached ==
    \E t, u \in Tasks :
        /\ op[t] = "add" /\ op[u] = "add"
        /\ body[t] \in {Undefined, Str(Blank)}
        /\ body[u] = Str(NoAt)
        /\ response[t] = 400 /\ response[u] = 400

\* ---------------------------------------------------------------- C7
\* C7: when the notifier call of an add-entry request fails after its insert,
\* the request answers 200 and nothing else, and its entry stays in the store
\* (until a delete request that read it removes it).
NotifierFailureKeepsSuccess ==
    \A t \in Tasks :
        (op[t] = "add" /\ notified[t] = "fail")
        => /\ inserted[t] = 1
           /\ response[t] \in {0, 200}
           /\ pc[t] = "done" => response[t] = 200
           /\ \/ Doc(t, Cleaned(t)) \in store
              \/ \E u \in Tasks : op[u] \in Deletes /\ t \in Ids(snap[u])

\* The notifier failed, the caller got 200 and the entry is stored.
NotifierFailureReached ==
    \E t \in Tasks :
        /\ op[t] = "add"
        /\ notified[t] = "fail"
        /\ response[t] = 200
        /\ Doc(t, Cleaned(t)) \in store

\* ---------------------------------------------------------------- C8
\* C8: an add-entry request answers 500 only with nothing inserted and no
\* notification attempted; no notification is attempted without an insert
\* that took effect, and no insert without both store calls issued.
StoreFailureNoPartialState ==
    \A t \in Tasks :
        op[t] = "add"
        => /\ response[t] = 500
                => /\ pc[t] = "done"
                   /\ inserted[t] = 0
                   /\ mailCalls[t] = 0
                   /\ notified[t] = "none"
                   /\ t \notin Ids(store)
           /\ mailCalls[t] > 0 => inserted[t] > 0
           /\ inserted[t] > 0 => storeCalls[t] = 2

\* One request failed at its duplicate query, another at its insert.
StoreFailureReached ==
    \E t, u \in Tasks :
        /\ op[t] = "add" /\ op[u] = "add"
        /\ response[t] = 500 /\ storeCalls[t] = 1
        /\ response[u] = 500 /\ storeCalls[u] = 2
        /\ Cleaned(t) = Cleaned(u)
        /\ WhereEmail(store, Cleaned(t)) = {}

\* ---------------------------------------------------------------- C9
\* f[lo] + ... + f[hi]
RECURSIVE SumRange(_, _, _)
SumRange(lo, hi, f) ==
    IF lo > hi THEN 0 ELSE f[lo] + SumRange(lo + 1, hi, f)

\* The normalized emails requests and docs can carry.
Emails == {Str(PlainA), Str(UpperA), Str(NoAt), Str(<<>>), NonString}

Norm(email) == IF email.kind = "string" THEN CleanedEmail(email) ELSE email

IsAddOf(t, email) == op[t] = "add" /\ Norm(body[t]) = email

\* Notifier calls made for an email: by the add-entry handlers and by the
\* collection listener.
MailAttempts(email) ==
    SumRange(1, NumTasks,
             [t \in Tasks |-> IF IsAddOf(t, email) THEN mailCalls[t] ELSE 0])
    + SumRange(-1, NumTasks,
               [id \in DocIds |->
                   IF Norm(listener[id].email) = email THEN listener[id].mails ELSE 0])

\* Inserts of an email that took effect.
Inserts(email) ==
    SumRange(1, NumTasks,
             [t \in Tasks |-> IF IsAddOf(t, email) THEN inserted[t] ELSE 0])

\* C9: for every email, the notifier calls made equal the inserts that took
\* effect; a request makes at most one notifier call, and none without its
\* own insert.
OneMailPerInsert ==
    /\ \A email \in Emails : MailAttempts(email) = Inserts(email)
    /\ \A t \in Tasks : mailCalls[t] <= 1 /\ mailCalls[t] = inserted[t]

\* ---------------------------------------------------------------- C10
\* C10: in an add-entry request the notifier is called only once the insert
\* has taken effect, the notifier call settles only after the insert and
\* before any answer, and 200 is sent only after the notifier call settled.
NotifyOrder ==
    [][\A t \in Tasks :
          op'[t] = "add"
          => /\ mailCalls'[t] > mailCalls[t]
                  => (inserted'[t] = 1 /\ Doc(t, Cleaned(t)) \in store')
             /\ notified'[t] # notified[t]
                  => (inserted[t] = 1 /\ mailCalls[t] = 1 /\ response[t] = 0)
             /\ (response'[t] = 200 /\ response[t] # 200)
                  => (notified[t] # "none" /\ inserted[t] = 1)]_vars

\* A request answered 200 after its notifier call had settled.
NotifyOrderReached ==
    \E t \in Tasks :
        /\ op[t] = "add"
        /\ response[t] = 200
        /\ notified[t] = "ok"
        /\ inserted[t] = 1

\* ---------------------------------------------------------------- C11
\* The initial read of list or delete request t runs (and does not fail) in
\* this step.
ReadRuns(t) ==
    /\ pc[t] = "query"
    /\ pc'[t] # "query"
    /\ response'[t] # 500

\* C11: when the read of a delete-entry request finds no doc with the email,
\* the request answers 404 in that step, issues no delete() call and leaves
\* the store as it was; a request that answered 404 has nothing pending.
NotFoundLeavesStore ==
    /\ [][\A t \in Tasks :
            ( /\ op[t] = "delete"
              /\ ReadRuns(t)
              /\ WhereEmail(store, body[t]) = {} )
            => /\ response'[t] = 404
               /\ pc'[t] = "done"
               /\ store' = store
               /\ pending'[t] = {}
               /\ storeCalls'[t] = 1]_vars
    /\ [](\A t \in Tasks :
            (op[t] = "delete" /\ response[t] = 404)
            => /\ snap[t] = {}
               /\ pending[t] = {}
               /\ storeCalls[t] = 1
               /\ pc[t] = "done")

\* A delete-entry request for an email the non-empty store does not hold
\* answered 404.
NotFoundReached ==
    \E t \in Tasks :
        /\ op[t] = "delete"
        /\ response[t] = 404
        /\ body[t] = Str(UpperA)
        /\ Doc(0, Str(PlainA)) \in store

\* ---------------------------------------------------------------- C12
NoAdds == \A v \in Tasks : op[v] # "add"

NoneFailed(t) ==
    \A id \in Ids(snap[t]) \ pending[t] : id \notin Ids(store)

\* List request u is issued in this step.
ListArrives(u) ==
    /\ pc[u] = "idle"
    /\ pc'[u] = "query"
    /\ op'[u] = "list"

\* C13: when a list request is issued after a delete-all request that found
\* N >= 1 entries has answered 200, no delete() of it having failed and no
\* add-entry request being present, the store is already empty; and the read
\* of a list request returns the store as it is, so the list is empty.
DeleteAllThenList ==
    /\ [][\A t, u \in Tasks :
            ( /\ op[t] = "deleteAll"
              /\ response[t] = 200
              /\ snap[t] # {}
              /\ NoneFailed(t)
              /\ NoAdds
              /\ ListArrives(u) )
            => store = {}]_vars
    /\ [][\A u \in Tasks :
            (op[u] = "list" /\ ReadRuns(u)) => snap'[u] = store]_vars

\* ---------------------------------------------------------------- C14
\* The delete() of doc id issued by request t rejects in this step: it
\* settles and the doc is still there.
DeleteRejects(t, id) ==
    /\ id \in pending[t]
    /\ id \notin pending'[t]
    /\ id \in Ids(store')

\* C14: a delete request issues one delete() for every entry of its read; once
\* one of them rejects the request is answered 500, never 200; and a doc a
\* delete() removed does not come back.
FailedDeleteReported ==
    /\ [][\A t \in Tasks :
            (op[t] \in Deletes /\ ReadRuns(t))
            => /\ pending'[t] = Ids(snap'[t])
               /\ snap'[t] # {} => storeCalls'[t] = 1 + Cardinality(snap'[t])]_vars
    /\ [][\A t \in Tasks : \A id \in DocIds :
            DeleteRejects(t, id) => response'[t] = 500]_vars
    /\ [][\A t \in Tasks : \A id \in Ids(snap[t]) :
            id \notin Ids(store) => id \notin Ids(store')]_vars

\* ---------------------------------------------------------------- C15
\* C15: a delete request that has answered 500 has no delete() pending, so
\* the store is not changed by it after its answer.
FailureAfterAllSettled ==
    \A t \in Tasks :
        (op[t] \in Deletes /\ response[t] = 500) => pending[t] = {}


\* ---------------------------------------------------------------- C16
\* Request t takes a step: it moves on in its handler or one of its delete()
\* calls settles.
Moves(t) == <<pc[t], pending[t]>>' # <<pc[t], pending[t]>>

\* C16: a request that has started and has not been answered can take a step
\* (no call it awaits is withheld), so it is never left without an answer.
EveryRequestAnswers ==
    \A t \in Tasks :
        (pc[t] # "idle" /\ response[t] = 0) => ENABLED (Next /\ Moves(t))

\* ---------------------------------------------------------------- C17
\* Request t has a delete() of doc d in flight.
Deleting(t, d) ==
    /\ op[t] \in Deletes
    /\ d.id \in pending[t]

\* C17: a doc leaves the store only through a delete() of a delete request,
\* and a delete-entry request removes only docs whose email is the email of
\* its body; a doc that stays keeps its email; a step of an add-entry request
\* only adds its own doc, and a step of a list request leaves the store as it
\* was.
FrameKept ==
    /\ [][\A d \in store \ store' :
            /\ \E t \in Tasks : Deleting(t, d) /\ d.id \notin pending'[t]
            /\ \A t \in Tasks :
                 (op[t] = "delete" /\ Deleting(t, d) /\ d.id \notin pending'[t])
                 => d.email = body[t]]_vars
    /\ [][\A d \in store : \A e \in store' : e.id = d.id => e.email = d.email]_vars
    /\ [][\A t \in Tasks :
            (op[t] \in {"add", "list"} /\ pc'[t] # pc[t])
            => /\ store \subseteq store'
               /\ op[t] = "list" => store' = store
               /\ store' \ store \subseteq {Doc(t, Cleaned(t))}]_vars

\* A delete-entry request removed the entry of its email and was answered 200
\* while an entry with another email, an add-entry request and a list request
\* were around.
FrameReached ==
    \E t \in Tasks :
        /\ op[t] = "delete"
        /\ response[t] = 200
        /\ body[t] = Str(PlainA)
        /\ Doc(-1, Str(UpperA)) \in store
        /\ \E u \in Tasks : op[u] \in {"add", "list"} /\ pc[u] = "done"


\* ---------------------------------------------------------------- C18
\* C18: a delete request that has answered 200 has no delete() pending and
\* every doc of its read is out of the store.
SuccessAfterRemoval ==
    \A t \in Tasks :
        (op[t] \in Deletes /\ response[t] = 200)
        => /\ pending[t] = {}
           /\ Ids(snap[t]) \cap Ids(store) = {}

\* ---------------------------------------------------------------- C19
\* C19: the delete() calls of a delete request are for docs of its own read;
\* a doc leaves the store only with the delete() of a request whose read held
\* it; a doc that was not in the read of a delete request is still in the
\* store after any step of that request.
OwnReadOnly ==
    /\ [](\A t \in Tasks : pending[t] \subseteq Ids(snap[t]))
    /\ [][\A d \in store \ store' :
            \E t \in Tasks : /\ op[t] \in Deletes
                             /\ d \in snap[t]
                             /\ d.id \in pending[t] \ pending'[t]]_vars
    /\ [][\A t \in Tasks : \A d \in store :
            ( /\ op[t] \in Deletes
              /\ Moves(t)
              /\ \A u \in Tasks \ {t} : ~Moves(u)
              /\ d \notin snap'[t] )
            => d \in store']_vars

\* A delete-all request was answered 200 with every doc of its read removed,
\* and the doc an add-entry request inserted after that read is in the store.
OwnReadOnlyReached ==
    \E t, u \in Tasks :
        /\ op[t] = "deleteAll"
        /\ response[t] = 200
        /\ snap[t] # {}
        /\ op[u] = "add"
        /\ Doc(u, Cleaned(u)) \in store
        /\ Doc(u, Cleaned(u)) \notin snap[t]


====
